---- MODULE Spec2Model ----
(***************************************************************************)
(* WasteWise authentication and authorization core: the auth routes        *)
(* (register, login, enable-2fa, disable-2fa), the protect, requireRole    *)
(* and requirePermission middleware, the /api/users routes, the            *)
(* TwoFactorAuth collection and the notifier, as a state machine.  Every   *)
(* handler is cut at its awaits on the database and on the notifier, so    *)
(* that requests of two clients interleave the way they do on the Node     *)
(* event loop.                                                             *)
(***************************************************************************)
EXTENDS Integers, Sequences, FiniteSets, TLC

\* ------------------------------------------------------------------ bounds
MaxUsers == 3        \* accounts ever created (ids are never reused)
MaxCodes == 2        \* TwoFactorAuth records ever created
MaxTicks == 1        \* clock advances

\* ------------------------------------------------------- program constants
CodeTtlMs == 10 * 60 * 1000      \* TwoFactorAuth.expiresAt default
RandMin == 100000                \* crypto.randomInt(min, max): min
RandMax == 999999                \* crypto.randomInt(min, max): max (exclusive)

\* ------------------------------------------------------------ input values
undefined == "undefined"         \* a field the request body does not have
NoPermissions == {undefined}     \* a body without the permissions array
Emails == {"admin@gmail.com", "alice@example.com"}
Passwords == {"Demo@123", "pw1"}
CodeSample == {RandMin, RandMax}
TickSteps == {CodeTtlMs - 1, CodeTtlMs}
Slots == {1, 2}                  \* the requests in flight at the same time
Salts == {1}                     \* bcrypt salts
Types == {"login", "enable_2fa", "disable_2fa"}

VARIABLES User,            \* accounts collection: id -> document
          nextId,          \* next ObjectId of the accounts collection
          TwoFactorAuth,   \* code records in creation order
          tokens,          \* session tokens signed so far
          now,             \* Date.now() in ms
          ticks,           \* clock advances so far
          req,             \* the requests in flight, one per slot
          last             \* the request the last step answered, with its response

vars == <<User, nextId, TwoFactorAuth, tokens, now, ticks, req, last>>

\* ----------------------------------------------------------------- helpers
\* JavaScript's !v on a body field that is a string or absent
falsy(v) == v = undefined \/ v = ""

\* crypto.randomInt(min, max): min <= n < max
randomInt(min, max) == {n \in CodeSample : min <= n /\ n < max}

\* generateTwoFactorCode: the decimal strings the generator can return
generateTwoFactorCode == {ToString(n) : n \in randomInt(RandMin, RandMax)}

\* the code strings a client may present
CodeStrings == {ToString(n) : n \in CodeSample}

\* User model: bcrypt hash of a password under a salt
hashPassword(salt, pw) == <<salt, pw>>

\* User model: user.matchPassword(entered)
matchPassword(user, entered) == hashPassword(user.password[1], entered) = user.password

\* jwt.sign({ id }, secret)
generateToken(id) == [id |-> id]

NoToken == [id |-> 0]
NoUser == [id |-> 0]

\* the fields of a fetched account document that the handlers read
document(u) == [id |-> u.id, name |-> u.name, email |-> u.email, password |-> u.password,
                role |-> u.role, permissions |-> u.permissions,
                twoFactorEnabled |-> u.twoFactorEnabled]

\* User.findOne({ email })
findOneByEmail(email) ==
  IF \E i \in DOMAIN User : User[i].email = email
    THEN document(User[CHOOSE i \in DOMAIN User : User[i].email = email])
    ELSE NoUser

\* the lookup that answers with the role and the custom permissions a stored
\* account had when it was created, as a session opened at that time would
findById_asIssued(id) ==
  IF id \in DOMAIN User
    THEN [document(User[id]) EXCEPT !.role = IF id = 1 THEN "admin" ELSE "user",
                                    !.permissions = {}]
    ELSE NoUser

\* User.findById(id)
findById(id) == IF id \in DOMAIN User THEN document(User[id]) ELSE NoUser

\* the lookup without the isUsed: false condition
findOneMatches_anyUsed(uid, code, type) ==
  {i \in 1..Len(TwoFactorAuth) :
     /\ TwoFactorAuth[i].user = uid
     /\ TwoFactorAuth[i].code = code
     /\ TwoFactorAuth[i].type = type
     /\ TwoFactorAuth[i].expiresAt > now}

\* the lookup with expiresAt: { $gte: new Date() }
findOneMatches_gte(uid, code, type) ==
  {i \in 1..Len(TwoFactorAuth) :
     /\ TwoFactorAuth[i].user = uid
     /\ TwoFactorAuth[i].code = code
     /\ TwoFactorAuth[i].type = type
     /\ TwoFactorAuth[i].isUsed = FALSE
     /\ TwoFactorAuth[i].expiresAt >= now}

\* the lookup without the user condition
findOneMatches_anyUser(uid, code, type) ==
  {i \in 1..Len(TwoFactorAuth) :
     /\ TwoFactorAuth[i].code = code
     /\ TwoFactorAuth[i].type = type
     /\ TwoFactorAuth[i].isUsed = FALSE
     /\ TwoFactorAuth[i].expiresAt > now}

\* TwoFactorAuth.findOne({ user, code, type, isUsed: false, expiresAt: { $gt: new Date() } })
\* the indexes of the records the filter matches
findOneMatches(uid, code, type) ==
  {i \in 1..Len(TwoFactorAuth) :
     /\ TwoFactorAuth[i].user = uid
     /\ TwoFactorAuth[i].code = code
     /\ TwoFactorAuth[i].type = type
     /\ TwoFactorAuth[i].isUsed = FALSE
     /\ TwoFactorAuth[i].expiresAt > now}

\* the schema default evaluated once, when the model is loaded at time 0
newTwoFactorRecord_loadTime(uid, code, type) ==
  [user |-> uid, code |-> code, type |-> type, isUsed |-> FALSE,
   expiresAt |-> CodeTtlMs, createdAt |-> now]

\* TwoFactorAuth.create({ user, code, type }) with the schema defaults
newTwoFactorRecord(uid, code, type) ==
  [user |-> uid, code |-> code, type |-> type, isUsed |-> FALSE,
   expiresAt |-> now + CodeTtlMs, createdAt |-> now]

\* what is left at the position of a record the TTL index has removed: no
\* filter matches it
Reaped == [user |-> 0, code |-> "", type |-> "", isUsed |-> FALSE,
           expiresAt |-> -1, createdAt |-> -1]

\* the unique index on email: an insert of a second account with the email fails
duplicateKey(email) == \E i \in DOMAIN User : User[i].email = email

\* User.create({ name, email, password }) with the schema defaults
newUser(id, name, email, password, salt) ==
  [id |-> id, name |-> name, email |-> email,
   password |-> hashPassword(salt, password),
   role |-> "user", permissions |-> {}, twoFactorEnabled |-> FALSE, lastLogin |-> -1]

\* ------------------------------------------------------------- responses
NoResp == [status |-> 0, message |-> "", id |-> 0, role |-> "", permissions |-> {},
           twoFactorEnabled |-> FALSE, requiresTwoFactor |-> FALSE, token |-> NoToken,
           required |-> "", allowed |-> {}, userRole |-> ""]

\* res.status(s).json({ message })
json(s, m) == [NoResp EXCEPT !.status = s, !.message = m]

\* res.json({ _id, name, email, role, permissions, token })
identity(s, u) == [NoResp EXCEPT !.status = s, !.id = u.id, !.role = u.role,
                    !.permissions = u.permissions, !.token = generateToken(u.id)]

\* a request: its route, its position, its body and parameters (id is
\* req.params.id, required the permission of the route's gate), req.user and
\* the locals of the handler
Idle == [op |-> "none", pc |-> "idle", name |-> undefined, email |-> undefined,
         password |-> undefined, code |-> undefined, auth |-> NoToken,
         id |-> 0, role |-> undefined, permissions |-> NoPermissions, required |-> "",
         user |-> NoUser, rec |-> 0, mail |-> "none", resp |-> NoResp]

\* a request is taken by the first slot that has none in flight
free(r) == req[r].pc = "idle" /\ \A k \in Slots : k < r => req[k].pc # "idle"

\* the request q ends with response x and leaves its slot r
answer(r, q, x) ==
  /\ req' = [req EXCEPT ![r] = Idle]
  /\ last' = [q EXCEPT !.pc = "done", !.resp = x]

reply(r, x) == answer(r, req[r], x)

\* the request of slot r goes on as q
goon(r, q) == req' = [req EXCEPT ![r] = q] /\ last' = Idle

\* -------------------------------------------------------------------- Init
\* the database after the seed script: the admin demo account
SeedUser == [id |-> 1, name |-> "Admin User", email |-> "admin@gmail.com",
             password |-> hashPassword(1, "Demo@123"), role |-> "admin",
             permissions |-> {}, twoFactorEnabled |-> FALSE, lastLogin |-> -1]

\* the seeded account, with two-factor authentication enabled or not
Init ==
  /\ \E tf \in BOOLEAN : User = (1 :> [SeedUser EXCEPT !.twoFactorEnabled = tf])
  /\ nextId = 2
  /\ TwoFactorAuth = <<>>
  /\ tokens = {}
  /\ now = 0
  /\ ticks = 0
  /\ req = [r \in Slots |-> Idle]
  /\ last = Idle

\* the request bodies of POST /register: one complete body per email, and the
\* bodies with one field missing
RegisterBodies ==
  {[name |-> "Alice", email |-> e, password |-> "pw1"] : e \in Emails}
    \cup {[name |-> undefined, email |-> "alice@example.com", password |-> "pw1"],
          [name |-> "Alice", email |-> "", password |-> "pw1"],
          [name |-> "Alice", email |-> "alice@example.com", password |-> undefined]}

\* the request bodies of POST /login
LoginBodies ==
  {[email |-> "admin@gmail.com", password |-> "Demo@123", twoFactorCode |-> c] :
     c \in CodeStrings \cup {undefined}}
    \cup {[email |-> "admin@gmail.com", password |-> "pw1", twoFactorCode |-> c] :
            c \in {undefined, "100000"}}
    \cup {[email |-> "alice@example.com", password |-> p, twoFactorCode |-> undefined] :
            p \in Passwords}
    \cup {[email |-> undefined, password |-> "pw1", twoFactorCode |-> undefined],
          [email |-> "admin@gmail.com", password |-> "", twoFactorCode |-> "100000"]}

\* the requests to POST /enable-2fa and POST /disable-2fa: with a session
\* token, without an Authorization header, with a token that does not verify
TwoFactorBodies ==
  {[op |-> o, auth |-> a, code |-> c] :
     o \in {"enable-2fa", "disable-2fa"}, a \in tokens, c \in CodeStrings \cup {undefined}}
    \cup {[op |-> "enable-2fa", auth |-> [id |-> 0], code |-> undefined],
          [op |-> "disable-2fa", auth |-> [id |-> -1], code |-> "100000"]}

\* ---------------------------------------------------------------- register
\* router.post('/register'): the body is read and validated
RegisterStart(r, name, email, password) ==
  /\ free(r)
  /\ LET q == [Idle EXCEPT !.op = "register", !.name = name, !.email = email,
                           !.password = password]
     IN  IF falsy(name) \/ falsy(email) \/ falsy(password)
           THEN answer(r, q, json(400, "Please provide all required fields"))
           ELSE goon(r, [q EXCEPT !.pc = "reg_find"])
  /\ UNCHANGED <<User, nextId, TwoFactorAuth, tokens, now, ticks>>

\* const userExists = await User.findOne({ email })
RegisterFind(r) ==
  /\ req[r].pc = "reg_find"
  /\ IF findOneByEmail(req[r].email) # NoUser
       THEN reply(r, json(400, "User already exists"))
       ELSE goon(r, [req[r] EXCEPT !.pc = "reg_create"])
  /\ UNCHANGED <<User, nextId, TwoFactorAuth, tokens, now, ticks>>

\* const user = await User.create({ name, email, password }), then the 201
RegisterCreate(r) ==
  /\ req[r].pc = "reg_create"
  /\ IF duplicateKey(req[r].email)
       THEN \* the insert throws and the handler's catch answers
            /\ reply(r, json(500, "Server error"))
            /\ UNCHANGED <<User, nextId, tokens>>
       ELSE /\ nextId <= MaxUsers
            /\ \E salt \in Salts :
                 LET u == newUser(nextId, req[r].name, req[r].email, req[r].password, salt)
                 IN  /\ User' = User @@ (nextId :> u)
                     /\ nextId' = nextId + 1
                     /\ tokens' = tokens \cup {generateToken(u.id)}
                     /\ answer(r, [req[r] EXCEPT !.user = document(u)], identity(201, u))
  /\ UNCHANGED <<TwoFactorAuth, now, ticks>>

\* ------------------------------------------------------------------- login
\* the validation that tests the email only
LoginStart_emailOnly(r, email, password, twoFactorCode) ==
  /\ free(r)
  /\ LET q == [Idle EXCEPT !.op = "login", !.email = email, !.password = password,
                           !.code = twoFactorCode]
     IN  IF falsy(email)
           THEN answer(r, q, json(400, "Please provide email and password"))
           ELSE goon(r, [q EXCEPT !.pc = "login_find"])
  /\ UNCHANGED <<User, nextId, TwoFactorAuth, tokens, now, ticks>>

\* router.post('/login'): the body is read and validated
LoginStart(r, email, password, twoFactorCode) ==
  /\ free(r)
  /\ LET q == [Idle EXCEPT !.op = "login", !.email = email, !.password = password,
                           !.code = twoFactorCode]
     IN  IF falsy(email) \/ falsy(password)
           THEN answer(r, q, json(400, "Please provide email and password"))
           ELSE goon(r, [q EXCEPT !.pc = "login_find"])
  /\ UNCHANGED <<User, nextId, TwoFactorAuth, tokens, now, ticks>>

\* the branch that trusts a supplied code without looking it up
LoginFind_skipLookup(r) ==
  /\ req[r].pc = "login_find"
  /\ LET user == findOneByEmail(req[r].email)
     IN  IF user # NoUser /\ matchPassword(user, req[r].password)
           THEN IF user.twoFactorEnabled /\ falsy(req[r].code)
                  THEN goon(r, [req[r] EXCEPT !.user = user, !.pc = "login_create"])
                  ELSE goon(r, [req[r] EXCEPT !.user = user, !.pc = "login_save"])
           ELSE reply(r, json(401, "Invalid email or password"))
  /\ UNCHANGED <<User, nextId, TwoFactorAuth, tokens, now, ticks>>

\* the condition without the password comparison: if (user)
LoginFind_noPassword(r) ==
  /\ req[r].pc = "login_find"
  /\ LET user == findOneByEmail(req[r].email)
     IN  IF user # NoUser
           THEN IF user.twoFactorEnabled
                  THEN IF falsy(req[r].code)
                         THEN goon(r, [req[r] EXCEPT !.user = user, !.pc = "login_create"])
                         ELSE goon(r, [req[r] EXCEPT !.user = user, !.pc = "login_lookup"])
                  ELSE goon(r, [req[r] EXCEPT !.user = user, !.pc = "login_save"])
           ELSE reply(r, json(401, "Invalid email or password"))
  /\ UNCHANGED <<User, nextId, TwoFactorAuth, tokens, now, ticks>>

\* the handler that tells an unknown email from a wrong password
LoginFind_userNotFound(r) ==
  /\ req[r].pc = "login_find"
  /\ LET user == findOneByEmail(req[r].email)
     IN  IF user = NoUser
           THEN reply(r, json(404, "User not found"))
           ELSE IF matchPassword(user, req[r].password)
                  THEN IF user.twoFactorEnabled
                         THEN IF falsy(req[r].code)
                                THEN goon(r, [req[r] EXCEPT !.user = user, !.pc = "login_create"])
                                ELSE goon(r, [req[r] EXCEPT !.user = user, !.pc = "login_lookup"])
                         ELSE goon(r, [req[r] EXCEPT !.user = user, !.pc = "login_save"])
                  ELSE reply(r, json(401, "Invalid email or password"))
  /\ UNCHANGED <<User, nextId, TwoFactorAuth, tokens, now, ticks>>

\* the handler that verifies a supplied code whether or not the account has
\* two-factor authentication enabled
LoginFind_codeFirst(r) ==
  /\ req[r].pc = "login_find"
  /\ LET user == findOneByEmail(req[r].email)
     IN  IF user # NoUser /\ matchPassword(user, req[r].password)
           THEN IF ~falsy(req[r].code)
                  THEN goon(r, [req[r] EXCEPT !.user = user, !.pc = "login_lookup"])
                  ELSE IF user.twoFactorEnabled
                         THEN goon(r, [req[r] EXCEPT !.user = user, !.pc = "login_create"])
                         ELSE goon(r, [req[r] EXCEPT !.user = user, !.pc = "login_save"])
           ELSE reply(r, json(401, "Invalid email or password"))
  /\ UNCHANGED <<User, nextId, TwoFactorAuth, tokens, now, ticks>>

\* const user = await User.findOne({ email }).select('+password'), the password
\* comparison and the branch on user.twoFactorEnabled and twoFactorCode
LoginFind(r) ==
  /\ req[r].pc = "login_find"
  /\ LET user == findOneByEmail(req[r].email)
     IN  IF user # NoUser /\ matchPassword(user, req[r].password)
           THEN IF user.twoFactorEnabled
                  THEN IF falsy(req[r].code)
                         THEN goon(r, [req[r] EXCEPT !.user = user, !.pc = "login_create"])
                         ELSE goon(r, [req[r] EXCEPT !.user = user, !.pc = "login_lookup"])
                  ELSE goon(r, [req[r] EXCEPT !.user = user, !.pc = "login_save"])
           ELSE reply(r, json(401, "Invalid email or password"))
  /\ UNCHANGED <<User, nextId, TwoFactorAuth, tokens, now, ticks>>

\* const code = generateTwoFactorCode(); await TwoFactorAuth.create({ user, code, type: 'login' })
LoginCreate(r) ==
  /\ req[r].pc = "login_create"
  /\ Len(TwoFactorAuth) < MaxCodes
  /\ \E code \in generateTwoFactorCode :
       TwoFactorAuth' = Append(TwoFactorAuth, newTwoFactorRecord(req[r].user.id, code, "login"))
  /\ goon(r, [req[r] EXCEPT !.pc = "login_send"])
  /\ UNCHANGED <<User, nextId, tokens, now, ticks>>

\* the step-up answer that already carries the identity and the token
LoginSend_token(r) ==
  /\ req[r].pc = "login_send"
  /\ \E sent \in BOOLEAN :
       IF sent
         THEN answer(r, [req[r] EXCEPT !.mail = "sent"],
                     [identity(200, req[r].user) EXCEPT !.requiresTwoFactor = TRUE,
                        !.message = "Two-factor authentication code sent to your email"])
         ELSE answer(r, [req[r] EXCEPT !.mail = "failed"], json(500, "Server error"))
  /\ UNCHANGED <<User, nextId, TwoFactorAuth, tokens, now, ticks>>

\* await sendTwoFactorCode(user.email, code, 'login'), then the step-up answer;
\* a failed send throws and the handler's catch answers
LoginSend(r) ==
  /\ req[r].pc = "login_send"
  /\ \E sent \in BOOLEAN :
       IF sent
         THEN answer(r, [req[r] EXCEPT !.mail = "sent"],
                     [NoResp EXCEPT !.status = 200, !.requiresTwoFactor = TRUE,
                        !.message = "Two-factor authentication code sent to your email"])
         ELSE answer(r, [req[r] EXCEPT !.mail = "failed"], json(500, "Server error"))
  /\ UNCHANGED <<User, nextId, TwoFactorAuth, tokens, now, ticks>>

\* the lookup that invalidates the account's login codes on a failed attempt
LoginLookup_burn(r) ==
  /\ req[r].pc = "login_lookup"
  /\ LET m == findOneMatches(req[r].user.id, req[r].code, "login")
     IN  IF m = {}
           THEN /\ reply(r, json(400, "Invalid or expired verification code"))
                /\ TwoFactorAuth' =
                     [i \in 1..Len(TwoFactorAuth) |->
                        IF TwoFactorAuth[i].user = req[r].user.id /\ TwoFactorAuth[i].type = "login"
                          THEN [TwoFactorAuth[i] EXCEPT !.isUsed = TRUE]
                          ELSE TwoFactorAuth[i]]
           ELSE /\ \E i \in m : goon(r, [req[r] EXCEPT !.rec = i, !.pc = "login_mark"])
                /\ UNCHANGED TwoFactorAuth
  /\ UNCHANGED <<User, nextId, tokens, now, ticks>>

\* const twoFactorRecord = await TwoFactorAuth.findOne({ ... type: 'login' ... })
LoginLookup(r) ==
  /\ req[r].pc = "login_lookup"
  /\ LET m == findOneMatches(req[r].user.id, req[r].code, "login")
     IN  IF m = {}
           THEN reply(r, json(400, "Invalid or expired verification code"))
           ELSE \E i \in m : goon(r, [req[r] EXCEPT !.rec = i, !.pc = "login_mark"])
  /\ UNCHANGED <<User, nextId, TwoFactorAuth, tokens, now, ticks>>

\* the handler that retires every login code of the account once one is used
LoginMark_all(r) ==
  /\ req[r].pc = "login_mark"
  /\ TwoFactorAuth' =
       [i \in 1..Len(TwoFactorAuth) |->
          IF TwoFactorAuth[i].user = req[r].user.id /\ TwoFactorAuth[i].type = "login"
            THEN [TwoFactorAuth[i] EXCEPT !.isUsed = TRUE]
            ELSE TwoFactorAuth[i]]
  /\ goon(r, [req[r] EXCEPT !.pc = "login_save"])
  /\ UNCHANGED <<User, nextId, tokens, now, ticks>>

\* twoFactorRecord.isUsed = true; await twoFactorRecord.save()
\* (save() of a record that is no longer stored throws, the catch answers)
LoginMark(r) ==
  /\ req[r].pc = "login_mark"
  /\ IF TwoFactorAuth[req[r].rec] # Reaped
       THEN /\ TwoFactorAuth' = [TwoFactorAuth EXCEPT ![req[r].rec].isUsed = TRUE]
            /\ goon(r, [req[r] EXCEPT !.pc = "login_save"])
       ELSE /\ reply(r, json(500, "Server error"))
            /\ UNCHANGED TwoFactorAuth
  /\ UNCHANGED <<User, nextId, tokens, now, ticks>>

\* user.lastLogin = new Date(); await user.save(); then the identity and token
\* (save() of a document that is no longer stored throws, the catch answers)
LoginSave(r) ==
  /\ req[r].pc = "login_save"
  /\ IF req[r].user.id \in DOMAIN User
       THEN /\ User' = [User EXCEPT ![req[r].user.id].lastLogin = now]
            /\ tokens' = tokens \cup {generateToken(req[r].user.id)}
            /\ reply(r, [identity(200, req[r].user) EXCEPT
                            !.twoFactorEnabled = req[r].user.twoFactorEnabled])
       ELSE /\ reply(r, json(500, "Server error"))
            /\ UNCHANGED <<User, tokens>>
  /\ UNCHANGED <<nextId, TwoFactorAuth, now, ticks>>

\* --------------------------------------------- protect, enable-2fa, disable-2fa
BadToken == [id |-> -1]

\* what jwt.verify accepts: a token this server signed
verify(token) == token \in tokens

\* the type tag and the flag value of the two routes
flowType(op) == IF op = "enable-2fa" THEN "enable_2fa" ELSE "disable_2fa"
flowFlag(op) == op = "enable-2fa"

\* protect: the Authorization header is read and the token verified
TwoFactorStart(r, op, auth, code) ==
  /\ free(r)
  /\ LET q == [Idle EXCEPT !.op = op, !.auth = auth, !.code = code]
     IN  IF auth = NoToken
           THEN answer(r, q, json(401, "Not authorized, no token"))
           ELSE IF ~verify(auth)
                  THEN answer(r, q, json(401, "Not authorized, token failed"))
                  ELSE goon(r, [q EXCEPT !.pc = "protect_find"])
  /\ UNCHANGED <<User, nextId, TwoFactorAuth, tokens, now, ticks>>

\* next() of protect: the route's next middleware or handler runs up to its
\* first await
next(q) ==
  CASE q.op \in {"enable-2fa", "disable-2fa"} ->
         IF falsy(q.code) THEN [q EXCEPT !.pc = "tfa_create"]
                          ELSE [q EXCEPT !.pc = "tfa_lookup"]
    [] q.op = "gate" -> [q EXCEPT !.pc = "require_permission"]
    [] OTHER -> [q EXCEPT !.pc = "require_role"]

\* protect without the return in front of the 401: the response is sent and
\* next() is called as well
ProtectFind_noReturn(r) ==
  /\ req[r].pc = "protect_find"
  /\ LET user == findById(req[r].auth.id)
     IN  IF user = NoUser
           THEN /\ req' = [req EXCEPT ![r] = next([req[r] EXCEPT !.user = user])]
                /\ last' = [req[r] EXCEPT !.pc = "done",
                               !.resp = json(401, "Not authorized, user not found")]
           ELSE goon(r, next([req[r] EXCEPT !.user = user]))
  /\ UNCHANGED <<User, nextId, TwoFactorAuth, tokens, now, ticks>>

\* protect: req.user = await User.findById(decoded.id); next()
ProtectFind(r) ==
  /\ req[r].pc = "protect_find"
  /\ LET user == findById(req[r].auth.id)
     IN  IF user = NoUser
           THEN reply(r, json(401, "Not authorized, user not found"))
           ELSE goon(r, next([req[r] EXCEPT !.user = user]))
  /\ UNCHANGED <<User, nextId, TwoFactorAuth, tokens, now, ticks>>

\* await TwoFactorAuth.create({ user: req.user._id, code, type })
TwoFactorCreate(r) ==
  /\ req[r].pc = "tfa_create"
  /\ Len(TwoFactorAuth) < MaxCodes
  /\ \E code \in generateTwoFactorCode :
       TwoFactorAuth' = Append(TwoFactorAuth,
                          newTwoFactorRecord(req[r].user.id, code, flowType(req[r].op)))
  /\ goon(r, [req[r] EXCEPT !.pc = "tfa_send"])
  /\ UNCHANGED <<User, nextId, tokens, now, ticks>>

\* await sendTwoFactorCode(req.user.email, code, type), then the acknowledgment
TwoFactorSend(r) ==
  /\ req[r].pc = "tfa_send"
  /\ \E sent \in BOOLEAN :
       IF sent
         THEN answer(r, [req[r] EXCEPT !.mail = "sent"],
                     json(200, "Verification code sent to your email"))
         ELSE answer(r, [req[r] EXCEPT !.mail = "failed"], json(500, "Server error"))
  /\ UNCHANGED <<User, nextId, TwoFactorAuth, tokens, now, ticks>>

\* the lookup that accepts a code of any flow
TwoFactorLookup_anyType(r) ==
  /\ req[r].pc = "tfa_lookup"
  /\ LET m == UNION {findOneMatches(req[r].user.id, req[r].code, t) : t \in Types}
     IN  IF m = {}
           THEN reply(r, json(400, "Invalid or expired verification code"))
           ELSE \E i \in m : goon(r, [req[r] EXCEPT !.rec = i, !.pc = "tfa_update"])
  /\ UNCHANGED <<User, nextId, TwoFactorAuth, tokens, now, ticks>>

\* const twoFactorRecord = await TwoFactorAuth.findOne({ ... type ... })
TwoFactorLookup(r) ==
  /\ req[r].pc = "tfa_lookup"
  /\ LET m == findOneMatches(req[r].user.id, req[r].code, flowType(req[r].op))
     IN  IF m = {}
           THEN reply(r, json(400, "Invalid or expired verification code"))
           ELSE \E i \in m : goon(r, [req[r] EXCEPT !.rec = i, !.pc = "tfa_update"])
  /\ UNCHANGED <<User, nextId, TwoFactorAuth, tokens, now, ticks>>

\* await User.findByIdAndUpdate(req.user._id, { twoFactorEnabled })
TwoFactorUpdate(r) ==
  /\ req[r].pc = "tfa_update"
  /\ User' = IF req[r].user.id \in DOMAIN User
               THEN [User EXCEPT ![req[r].user.id].twoFactorEnabled = flowFlag(req[r].op)]
               ELSE User
  /\ goon(r, [req[r] EXCEPT !.pc = "tfa_mark"])
  /\ UNCHANGED <<nextId, TwoFactorAuth, tokens, now, ticks>>

\* twoFactorRecord.isUsed = true; await twoFactorRecord.save(); then the answer
\* (save() of a record that is no longer stored throws, the catch answers)
TwoFactorMark(r) ==
  /\ req[r].pc = "tfa_mark"
  /\ IF TwoFactorAuth[req[r].rec] # Reaped
       THEN /\ TwoFactorAuth' = [TwoFactorAuth EXCEPT ![req[r].rec].isUsed = TRUE]
            /\ reply(r, json(200, IF flowFlag(req[r].op)
                                     THEN "Two-factor authentication enabled successfully"
                                     ELSE "Two-factor authentication disabled successfully"))
       ELSE /\ reply(r, json(500, "Server error"))
            /\ UNCHANGED TwoFactorAuth
  /\ UNCHANGED <<User, nextId, tokens, now, ticks>>

\* ------------------------------------------- requirePermission, requireRole
Roles == {"user", "manager", "admin"}

\* the table whose manager entry lists the manager's additions only
rolePermissions_additionsOnly ==
  [role \in Roles |->
     CASE role = "user" ->
            {"inventory:read", "inventory:write", "waste:read", "waste:write"}
       [] role = "manager" ->
            {"inventory:delete", "waste:delete", "analytics:read", "users:read"}
       [] role = "admin" ->
            {"inventory:read", "inventory:write", "inventory:delete",
             "waste:read", "waste:write", "waste:delete",
             "analytics:read", "users:read",
             "users:write", "users:delete", "settings:write"}]

\* requirePermission: the rolePermissions table
rolePermissions ==
  [role \in Roles |->
     CASE role = "user" ->
            {"inventory:read", "inventory:write", "waste:read", "waste:write"}
       [] role = "manager" ->
            {"inventory:read", "inventory:write", "inventory:delete",
             "waste:read", "waste:write", "waste:delete",
             "analytics:read", "users:read"}
       [] role = "admin" ->
            {"inventory:read", "inventory:write", "inventory:delete",
             "waste:read", "waste:write", "waste:delete",
             "analytics:read", "users:read",
             "users:write", "users:delete", "settings:write"}]

\* rolePermissions[user.role] || []
userRolePermissions(user) ==
  IF user.role \in DOMAIN rolePermissions THEN rolePermissions[user.role] ELSE {}

hasRolePermission(user, permission) == permission \in userRolePermissions(user)

\* user.permissions && user.permissions.includes(permission)
hasCustomPermission(user, permission) == permission \in user.permissions

\* res.status(403).json({ message, required: permission, userRole })
forbiddenPermission(permission, user) ==
  [json(403, "Insufficient permissions") EXCEPT !.required = permission,
                                                !.userRole = user.role]

\* res.status(403).json({ message, required: allowedRoles, userRole })
forbiddenRole(allowedRoles, user) ==
  [json(403, "Insufficient role permissions") EXCEPT !.allowed = allowedRoles,
                                                     !.userRole = user.role]

\* the custom permissions that name the administration of accounts
UserAdministration == {"users:write", "users:delete"}

\* the permissions the gated routes of the model require: GET /api/users,
\* POST /api/inventory, and a gate on users:write
Required == {"users:read", "inventory:write", "users:write"}

\* the ids a request may name in its path: the accounts, and an id of no account
Ids == DOMAIN User \cup {nextId}

\* the requests to a route behind requirePermission(required)
GateBodies ==
  {[Idle EXCEPT !.op = "gate", !.auth = a, !.required = p] : a \in tokens, p \in Required}
    \cup {[Idle EXCEPT !.op = "gate", !.auth = NoToken, !.required = "users:read"]}

\* the requests to POST /api/users
CreateBodies ==
  {[Idle EXCEPT !.op = "users-create", !.auth = a, !.name = "Alice",
                !.email = "alice@example.com", !.password = "pw1",
                !.role = b[1], !.permissions = b[2]] :
     a \in tokens,
     b \in {<<undefined, NoPermissions>>, <<"manager", {"users:write"}>>,
            <<"root", NoPermissions>>}}
    \cup {[Idle EXCEPT !.op = "users-create", !.auth = a, !.name = b[1], !.email = b[2],
                       !.password = "pw1"] :
            a \in tokens,
            b \in {<<undefined, "alice@example.com">>, <<"Admin", "admin@gmail.com">>}}

\* the requests to PUT /api/users/:id/role: updates of the accounts other than
\* the seeded admin by any caller, and updates named by the seeded admin for
\* its own id, for an invalid role and for an id of no account
RoleBodies ==
  {[Idle EXCEPT !.op = "users-role", !.auth = a, !.id = i,
                !.role = b[1], !.permissions = b[2]] :
     a \in tokens, i \in DOMAIN User \ {1},
     b \in {<<"user", NoPermissions>>, <<"manager", NoPermissions>>,
            <<"admin", NoPermissions>>, <<undefined, {"users:write"}>>}}
    \cup {[Idle EXCEPT !.op = "users-role", !.auth = generateToken(1), !.id = b[1],
                       !.role = b[2], !.permissions = b[3]] :
            b \in {<<1, "user", NoPermissions>>, <<1, "root", NoPermissions>>,
                   <<1, undefined, {"users:write"}>>,
                   <<nextId, "manager", NoPermissions>>}}

\* the requests to DELETE /api/users/:id
DeleteBodies ==
  {[Idle EXCEPT !.op = "users-delete", !.auth = a, !.id = i] : a \in tokens, i \in Ids}
    \cup {[Idle EXCEPT !.op = "users-delete", !.auth = [id |-> -1], !.id = 1],
          [Idle EXCEPT !.op = "users-delete", !.auth = NoToken, !.id = 1]}

\* the requests to the routes behind protect and a gate
UsersBodies == GateBodies \cup CreateBodies \cup RoleBodies \cup DeleteBodies

\* protect on a route of /api/users or a gated route: the Authorization header
\* is read and the token verified
UsersStart(r, q) ==
  /\ free(r)
  /\ IF q.auth = NoToken
       THEN answer(r, q, json(401, "Not authorized, no token"))
       ELSE IF ~verify(q.auth)
              THEN answer(r, q, json(401, "Not authorized, token failed"))
              ELSE goon(r, [q EXCEPT !.pc = "protect_find"])
  /\ UNCHANGED <<User, nextId, TwoFactorAuth, tokens, now, ticks>>

\* the check against req.user as protect fetched it, not against the stored account
RequirePermission_reqUser(r) ==
  /\ req[r].pc = "require_permission"
  /\ LET user == req[r].user
         permission == req[r].required
     IN  IF findById(req[r].user.id) = NoUser
           THEN reply(r, json(401, "User not found"))
           ELSE IF ~hasRolePermission(user, permission) /\ ~hasCustomPermission(user, permission)
                  THEN reply(r, forbiddenPermission(permission, user))
                  ELSE goon(r, [req[r] EXCEPT !.pc = "handler"])
  /\ UNCHANGED <<User, nextId, TwoFactorAuth, tokens, now, ticks>>

\* requirePermission(permission): const user = await User.findById(req.user._id),
\* the check, and next() into the handler up to its first await
RequirePermission(r) ==
  /\ req[r].pc = "require_permission"
  /\ LET user == findById(req[r].user.id)
         permission == req[r].required
     IN  IF user = NoUser
           THEN reply(r, json(401, "User not found"))
           ELSE IF ~hasRolePermission(user, permission) /\ ~hasCustomPermission(user, permission)
                  THEN reply(r, forbiddenPermission(permission, user))
                  ELSE goon(r, [req[r] EXCEPT !.pc = "handler"])
  /\ UNCHANGED <<User, nextId, TwoFactorAuth, tokens, now, ticks>>

\* the handler behind requirePermission: its query, then the answer
Handler(r) ==
  /\ req[r].pc = "handler"
  /\ reply(r, json(200, ""))
  /\ UNCHANGED <<User, nextId, TwoFactorAuth, tokens, now, ticks>>

\* -------------------------------------------------------------- /api/users
\* POST /: the validation of the body
createHandler(r) ==
  IF falsy(req[r].name) \/ falsy(req[r].email) \/ falsy(req[r].password)
    THEN reply(r, json(400, "Please provide name, email, and password"))
    ELSE goon(r, [req[r] EXCEPT !.pc = "create_find"])

\* the validation that lets an admin name their own id
roleHandler_noSelfCheck(r) ==
  IF ~falsy(req[r].role) /\ req[r].role \notin Roles
    THEN reply(r, json(400, "Invalid role"))
    ELSE goon(r, [req[r] EXCEPT !.pc = "role_update"])

\* PUT /:id/role: the validation of the role and the check against the
\* caller's own id
roleHandler(r) ==
  IF ~falsy(req[r].role) /\ req[r].role \notin Roles
    THEN reply(r, json(400, "Invalid role"))
    ELSE IF req[r].id = req[r].user.id /\ ~falsy(req[r].role) /\ req[r].role # "admin"
           THEN reply(r, json(400, "Cannot change your own admin role"))
           ELSE goon(r, [req[r] EXCEPT !.pc = "role_update"])

\* the handler that deletes whatever id the path names
deleteHandler_noSelfCheck(r) == goon(r, [req[r] EXCEPT !.pc = "delete"])

\* DELETE /:id: the check against the caller's own id
deleteHandler(r) ==
  IF req[r].id = req[r].user.id
    THEN reply(r, json(400, "Cannot delete your own account"))
    ELSE goon(r, [req[r] EXCEPT !.pc = "delete"])

\* the handler of the route entered after requireRole('admin'), up to its
\* first await
usersHandler(r) ==
  CASE req[r].op = "users-create" -> createHandler(r)
    [] req[r].op = "users-role" -> roleHandler(r)
    [] OTHER -> deleteHandler(r)

\* the role check that reads the role of req.user, not the stored one
RequireRole_reqUser(r) ==
  /\ req[r].pc = "require_role"
  /\ LET user == findById(req[r].user.id)
     IN  IF user = NoUser
           THEN reply(r, json(401, "User not found"))
           ELSE IF req[r].user.role \notin {"admin"}
                  THEN reply(r, forbiddenRole({"admin"}, user))
                  ELSE usersHandler(r)
  /\ UNCHANGED <<User, nextId, TwoFactorAuth, tokens, now, ticks>>

\* the role check that also admits an account whose custom permissions name
\* the administration of accounts
RequireRole_orPermission(r) ==
  /\ req[r].pc = "require_role"
  /\ LET user == findById(req[r].user.id)
         allowedRoles == {"admin"}
     IN  IF user = NoUser
           THEN reply(r, json(401, "User not found"))
           ELSE IF user.role \notin allowedRoles /\ user.permissions \cap UserAdministration = {}
                  THEN reply(r, forbiddenRole(allowedRoles, user))
                  ELSE usersHandler(r)
  /\ UNCHANGED <<User, nextId, TwoFactorAuth, tokens, now, ticks>>

\* requireRole('admin'): const user = await User.findById(req.user._id), the
\* check, and next() into the handler
RequireRole(r) ==
  /\ req[r].pc = "require_role"
  /\ LET user == findById(req[r].user.id)
         allowedRoles == {"admin"}
     IN  IF user = NoUser
           THEN reply(r, json(401, "User not found"))
           ELSE IF user.role \notin allowedRoles
                  THEN reply(r, forbiddenRole(allowedRoles, user))
                  ELSE usersHandler(r)
  /\ UNCHANGED <<User, nextId, TwoFactorAuth, tokens, now, ticks>>

\* POST /: const existingUser = await User.findOne({ email }), then the
\* validation of the role
CreateFind(r) ==
  /\ req[r].pc = "create_find"
  /\ LET userRole == IF falsy(req[r].role) THEN "user" ELSE req[r].role
     IN  IF findOneByEmail(req[r].email) # NoUser
           THEN reply(r, json(400, "User with this email already exists"))
           ELSE IF userRole \notin Roles
                  THEN reply(r, json(400, "Invalid role specified"))
                  ELSE goon(r, [req[r] EXCEPT !.role = userRole, !.pc = "create_create"])
  /\ UNCHANGED <<User, nextId, TwoFactorAuth, tokens, now, ticks>>

\* the insert that does not meet a unique index
CreateCreate_noIndex(r) ==
  /\ req[r].pc = "create_create"
  /\ nextId <= MaxUsers
  /\ \E salt \in Salts :
       LET u == [newUser(nextId, req[r].name, req[r].email, req[r].password, salt)
                   EXCEPT !.role = req[r].role,
                          !.permissions = IF req[r].permissions = NoPermissions
                                            THEN {} ELSE req[r].permissions]
       IN  /\ User' = User @@ (nextId :> u)
           /\ nextId' = nextId + 1
           /\ goon(r, [req[r] EXCEPT !.user = document(u), !.pc = "create_read"])
  /\ UNCHANGED <<TwoFactorAuth, tokens, now, ticks>>

\* POST /: const user = await User.create({ name, email, password, role, permissions })
CreateCreate(r) ==
  /\ req[r].pc = "create_create"
  /\ IF duplicateKey(req[r].email)
       THEN \* the insert throws and the handler's catch answers
            /\ reply(r, json(500, "Server error"))
            /\ UNCHANGED <<User, nextId>>
       ELSE /\ nextId <= MaxUsers
            /\ \E salt \in Salts :
                 LET u == [newUser(nextId, req[r].name, req[r].email, req[r].password, salt)
                             EXCEPT !.role = req[r].role,
                                    !.permissions = IF req[r].permissions = NoPermissions
                                                      THEN {} ELSE req[r].permissions]
                 IN  /\ User' = User @@ (nextId :> u)
                     /\ nextId' = nextId + 1
                     /\ goon(r, [req[r] EXCEPT !.user = document(u), !.pc = "create_read"])
  /\ UNCHANGED <<TwoFactorAuth, tokens, now, ticks>>

\* res.status(s).json(user): an account document without its password
userJson(s, u) ==
  IF u = NoUser THEN json(s, "")
  ELSE [NoResp EXCEPT !.status = s, !.id = u.id, !.role = u.role,
                      !.permissions = u.permissions,
                      !.twoFactorEnabled = u.twoFactorEnabled]

\* POST /: const userResponse = await User.findById(user._id), then the 201
CreateRead(r) ==
  /\ req[r].pc = "create_read"
  /\ reply(r, userJson(201, findById(req[r].user.id)))
  /\ UNCHANGED <<User, nextId, TwoFactorAuth, tokens, now, ticks>>

\* PUT /:id/role: await User.findByIdAndUpdate(req.params.id, updateData, { new: true })
RoleUpdate(r) ==
  /\ req[r].pc = "role_update"
  /\ IF req[r].id \notin DOMAIN User
       THEN reply(r, json(404, "User not found")) /\ UNCHANGED User
       ELSE LET old == User[req[r].id]
                u == [old EXCEPT
                        !.role = IF falsy(req[r].role) THEN old.role ELSE req[r].role,
                        !.permissions = IF req[r].permissions = NoPermissions
                                          THEN old.permissions ELSE req[r].permissions]
            IN  /\ User' = [User EXCEPT ![req[r].id] = u]
                /\ reply(r, userJson(200, document(u)))
  /\ UNCHANGED <<nextId, TwoFactorAuth, tokens, now, ticks>>

\* DELETE /:id: await User.findByIdAndDelete(req.params.id)
Delete(r) ==
  /\ req[r].pc = "delete"
  /\ IF req[r].id \notin DOMAIN User
       THEN reply(r, json(404, "User not found")) /\ UNCHANGED User
       ELSE /\ User' = [i \in DOMAIN User \ {req[r].id} |-> User[i]]
            /\ reply(r, json(200, "User deleted successfully"))
  /\ UNCHANGED <<nextId, TwoFactorAuth, tokens, now, ticks>>

\* ------------------------------------------------------------ TTL index
\* index({ expiresAt: 1 }, { expireAfterSeconds: 0 }): the database removes a
\* record at some moment after its expiresAt has passed
Reap ==
  /\ \E i \in 1..Len(TwoFactorAuth) :
       /\ TwoFactorAuth[i] # Reaped
       /\ TwoFactorAuth[i].expiresAt <= now
       /\ TwoFactorAuth' = [TwoFactorAuth EXCEPT ![i] = Reaped]
  /\ last' = Idle
  /\ UNCHANGED <<User, nextId, tokens, now, ticks, req>>

\* ------------------------------------------------------------------- clock
Tick ==
  /\ ticks < MaxTicks
  /\ \E d \in TickSteps : now' = now + d
  /\ ticks' = ticks + 1
  /\ last' = Idle
  /\ UNCHANGED <<User, nextId, TwoFactorAuth, tokens, req>>

Next ==
  \/ \E r \in Slots, b \in RegisterBodies : RegisterStart(r, b.name, b.email, b.password)
  \/ \E r \in Slots : RegisterFind(r)
  \/ \E r \in Slots : RegisterCreate(r)
  \/ \E r \in Slots, b \in LoginBodies : LoginStart(r, b.email, b.password, b.twoFactorCode)
  \/ \E r \in Slots : LoginFind(r)
  \/ \E r \in Slots : LoginCreate(r)
  \/ \E r \in Slots : LoginSend(r)
  \/ \E r \in Slots : LoginLookup(r)
  \/ \E r \in Slots : LoginMark(r)
  \/ \E r \in Slots : LoginSave(r)
  \/ \E r \in Slots, b \in TwoFactorBodies : TwoFactorStart(r, b.op, b.auth, b.code)
  \/ \E r \in Slots : ProtectFind(r)
  \/ \E r \in Slots : TwoFactorCreate(r)
  \/ \E r \in Slots : TwoFactorSend(r)
  \/ \E r \in Slots : TwoFactorLookup(r)
  \/ \E r \in Slots : TwoFactorUpdate(r)
  \/ \E r \in Slots : TwoFactorMark(r)
  \/ \E r \in Slots, q \in UsersBodies : UsersStart(r, q)
  \/ \E r \in Slots : RequirePermission(r)
  \/ \E r \in Slots : Handler(r)
  \/ \E r \in Slots : RequireRole(r)
  \/ \E r \in Slots : CreateFind(r)
  \/ \E r \in Slots : CreateCreate(r)
  \/ \E r \in Slots : CreateRead(r)
  \/ \E r \in Slots : RoleUpdate(r)
  \/ \E r \in Slots : Delete(r)
  \/ Tick

Spec == Init /\ [][Next]_vars

\* the login route alone, with the clock
NextLogin ==
  \/ \E r \in Slots, b \in LoginBodies : LoginStart(r, b.email, b.password, b.twoFactorCode)
  \/ \E r \in Slots : LoginFind(r)
  \/ \E r \in Slots : LoginCreate(r)
  \/ \E r \in Slots : LoginSend(r)
  \/ \E r \in Slots : LoginLookup(r)
  \/ \E r \in Slots : LoginMark(r)
  \/ \E r \in Slots : LoginSave(r)
  \/ Tick

SpecLogin == Init /\ [][NextLogin]_vars

\* the register route alone
NextRegister ==
  \/ \E r \in Slots, b \in RegisterBodies : RegisterStart(r, b.name, b.email, b.password)
  \/ \E r \in Slots : RegisterFind(r)
  \/ \E r \in Slots : RegisterCreate(r)

SpecRegister == Init /\ [][NextRegister]_vars

\* the database after the seed script and a login of the seeded admin at time
\* 0: the admin holds a session token
InitSession ==
  /\ User = (1 :> [SeedUser EXCEPT !.lastLogin = 0])
  /\ nextId = 2
  /\ TwoFactorAuth = <<>>
  /\ tokens = {generateToken(1)}
  /\ now = 0
  /\ ticks = 0
  /\ req = [r \in Slots |-> Idle]
  /\ last = Idle

\* the state after the admin's login and the registration of a second
\* account at time 0: both hold a session token
InitRegistered ==
  /\ User = (1 :> [SeedUser EXCEPT !.lastLogin = 0])
              @@ (2 :> newUser(2, "Alice", "alice@example.com", "pw1", 1))
  /\ nextId = 3
  /\ TwoFactorAuth = <<>>
  /\ tokens = {generateToken(1), generateToken(2)}
  /\ now = 0
  /\ ticks = 0
  /\ req = [r \in Slots |-> Idle]
  /\ last = Idle

\* the gates: the routes behind requirePermission, and the role update behind
\* requireRole that changes what the gates read
NextGate ==
  \/ \E r \in Slots, q \in GateBodies \cup RoleBodies : UsersStart(r, q)
  \/ \E r \in Slots : ProtectFind(r)
  \/ \E r \in Slots : RequirePermission(r)
  \/ \E r \in Slots : Handler(r)
  \/ \E r \in Slots : RequireRole(r)
  \/ \E r \in Slots : RoleUpdate(r)

SpecGate == InitRegistered /\ [][NextGate]_vars

\* the accounts: register, and create and delete behind requireRole
NextAccounts ==
  \/ \E r \in Slots, b \in RegisterBodies : RegisterStart(r, b.name, b.email, b.password)
  \/ \E r \in Slots : RegisterFind(r)
  \/ \E r \in Slots : RegisterCreate(r)
  \/ \E r \in Slots, q \in CreateBodies \cup DeleteBodies : UsersStart(r, q)
  \/ \E r \in Slots : ProtectFind(r)
  \/ \E r \in Slots : RequireRole(r)
  \/ \E r \in Slots : CreateFind(r)
  \/ \E r \in Slots : CreateCreate(r)
  \/ \E r \in Slots : CreateRead(r)
  \/ \E r \in Slots : Delete(r)

SpecAccounts == InitSession /\ [][NextAccounts]_vars

\* the role updates and deletes that any account holding a token names for
\* any stored account
AdminBodies ==
  {[Idle EXCEPT !.op = "users-role", !.auth = a, !.id = i, !.role = b] :
     a \in tokens, i \in DOMAIN User, b \in {"user", "admin"}}
    \cup {[Idle EXCEPT !.op = "users-delete", !.auth = a, !.id = i] :
            a \in tokens, i \in DOMAIN User}

\* the role update and the delete behind requireRole('admin')
NextAdmins ==
  \/ \E r \in Slots, q \in AdminBodies : UsersStart(r, q)
  \/ \E r \in Slots : ProtectFind(r)
  \/ \E r \in Slots : RequireRole(r)
  \/ \E r \in Slots : RoleUpdate(r)
  \/ \E r \in Slots : Delete(r)

SpecAdmins == InitRegistered /\ [][NextAdmins]_vars

\* the requests to the users endpoints by any account holding a token: a
\* create with the role admin, and for the accounts other than the seeded
\* admin the promotion to admin, the grant of the custom permissions and the
\* delete
PrivilegeBodies ==
  {[Idle EXCEPT !.op = "users-create", !.auth = a, !.name = "Alice",
                !.email = "alice@example.com", !.password = "pw1", !.role = "admin"] :
     a \in tokens}
    \cup {[Idle EXCEPT !.op = "users-role", !.auth = a, !.id = i,
                       !.role = b[1], !.permissions = b[2]] :
            a \in tokens, i \in DOMAIN User \ {1},
            b \in {<<"admin", NoPermissions>>, <<undefined, UserAdministration>>}}
    \cup {[Idle EXCEPT !.op = "users-delete", !.auth = a, !.id = i] :
            a \in tokens, i \in DOMAIN User \ {1}}

\* the ways an account, a role or a custom permission comes about or goes:
\* register, and the users endpoints behind requireRole('admin')
NextPrivilege ==
  \/ \E r \in Slots : RegisterStart(r, "Alice", "alice@example.com", "pw1")
  \/ \E r \in Slots : RegisterFind(r)
  \/ \E r \in Slots : RegisterCreate(r)
  \/ \E r \in Slots, q \in PrivilegeBodies : UsersStart(r, q)
  \/ \E r \in Slots : ProtectFind(r)
  \/ \E r \in Slots : RequireRole(r)
  \/ \E r \in Slots : CreateFind(r)
  \/ \E r \in Slots : CreateCreate(r)
  \/ \E r \in Slots : CreateRead(r)
  \/ \E r \in Slots : RoleUpdate(r)
  \/ \E r \in Slots : Delete(r)

SpecPrivilege == InitSession /\ [][NextPrivilege]_vars

\* the state after a login of the seeded admin, with two-factor
\* authentication enabled or not, once the code records of earlier flows
\* have expired and have been reaped
InitTwoFactor ==
  /\ \E tf \in BOOLEAN :
       User = (1 :> [SeedUser EXCEPT !.twoFactorEnabled = tf, !.lastLogin = 0])
  /\ nextId = 2
  /\ TwoFactorAuth = <<>>
  /\ tokens = {generateToken(1)}
  /\ now = 0
  /\ ticks = 0
  /\ req = [r \in Slots |-> Idle]
  /\ last = Idle

\* the logins of the seeded admin with the stored password
AdminLoginBodies ==
  {b \in LoginBodies : b.email = "admin@gmail.com" /\ b.password = "Demo@123"}

\* the requests of the three flows that ask for a code: no code in the body
CodeRequestBodies == {b \in AdminLoginBodies : b.twoFactorCode = undefined}
FlowRequestBodies == {b \in TwoFactorBodies : b.code = undefined}

\* the issue of codes by the three flows (login, enable-2fa, disable-2fa):
\* the record, the notifier and the answer
NextIssue ==
  \/ \E r \in Slots, b \in CodeRequestBodies :
       LoginStart(r, b.email, b.password, b.twoFactorCode)
  \/ \E r \in Slots : LoginFind(r)
  \/ \E r \in Slots : LoginCreate(r)
  \/ \E r \in Slots : LoginSend(r)
  \/ \E r \in Slots : LoginSave(r)
  \/ \E r \in Slots, b \in FlowRequestBodies : TwoFactorStart(r, b.op, b.auth, b.code)
  \/ \E r \in Slots : ProtectFind(r)
  \/ \E r \in Slots : TwoFactorCreate(r)
  \/ \E r \in Slots : TwoFactorSend(r)
  \/ Tick

SpecIssue == InitTwoFactor /\ [][NextIssue]_vars

\* the requests to enable-2fa and disable-2fa without a code or with a code
\* the generator can have produced
FlowBodies == {b \in TwoFactorBodies : b.code \in generateTwoFactorCode \cup {undefined}}

\* the routes that write to the admin's account, one request at a time: the
\* login up to its answer, enable-2fa and disable-2fa with their
\* verification, and the role update
NextFlag ==
  \/ \E b \in CodeRequestBodies : LoginStart(1, b.email, b.password, b.twoFactorCode)
  \/ LoginFind(1)
  \/ LoginCreate(1)
  \/ LoginSend(1)
  \/ LoginSave(1)
  \/ \E b \in FlowBodies : TwoFactorStart(1, b.op, b.auth, b.code)
  \/ \E q \in RoleBodies : UsersStart(1, q)
  \/ ProtectFind(1)
  \/ TwoFactorCreate(1)
  \/ TwoFactorSend(1)
  \/ TwoFactorLookup(1)
  \/ TwoFactorUpdate(1)
  \/ TwoFactorMark(1)
  \/ RequireRole(1)
  \/ RoleUpdate(1)
  \/ Tick

SpecFlag == InitTwoFactor /\ [][NextFlag]_vars

\* a code string of an earlier request: the largest value the generator returns
EarlierCode == ToString(RandMax - 1)

\* the state after the admin's login at time 0, with a second account that has
\* enabled two-factor authentication and a login code issued to the admin at
\* time 0 that is still outstanding; the admin's flag is on or has been
\* switched off since
InitOutstanding ==
  /\ \E tf \in BOOLEAN :
       User = (1 :> [SeedUser EXCEPT !.twoFactorEnabled = tf, !.lastLogin = 0])
                @@ (2 :> [newUser(2, "Alice", "alice@example.com", "pw1", 1)
                            EXCEPT !.twoFactorEnabled = TRUE])
  /\ nextId = 3
  /\ now = 0
  /\ TwoFactorAuth = <<newTwoFactorRecord(1, EarlierCode, "login")>>
  /\ tokens = {generateToken(1)}
  /\ ticks = 0
  /\ req = [r \in Slots |-> Idle]
  /\ last = Idle

\* the logins with the stored password: the admin without a code and with a
\* code of either string, the second account with a code
VerifyLoginBodies ==
  {[email |-> "admin@gmail.com", password |-> "Demo@123", twoFactorCode |-> c] :
     c \in generateTwoFactorCode \cup {EarlierCode, undefined}}
    \cup {[email |-> "alice@example.com", password |-> "pw1", twoFactorCode |-> c] :
            c \in generateTwoFactorCode \cup {EarlierCode}}

\* the admin's requests to enable-2fa and disable-2fa
VerifyFlowBodies ==
  {[op |-> o, auth |-> generateToken(1), code |-> c] :
     o \in {"enable-2fa", "disable-2fa"},
     c \in generateTwoFactorCode \cup {EarlierCode, undefined}}

\* the three flows with their verification, one request at a time
NextVerify ==
  \/ \E b \in VerifyLoginBodies : LoginStart(1, b.email, b.password, b.twoFactorCode)
  \/ LoginFind(1)
  \/ LoginCreate(1)
  \/ LoginSend(1)
  \/ LoginLookup(1)
  \/ LoginMark(1)
  \/ LoginSave(1)
  \/ \E b \in VerifyFlowBodies : TwoFactorStart(1, b.op, b.auth, b.code)
  \/ ProtectFind(1)
  \/ TwoFactorCreate(1)
  \/ TwoFactorSend(1)
  \/ TwoFactorLookup(1)
  \/ TwoFactorUpdate(1)
  \/ TwoFactorMark(1)
  \/ Tick

SpecVerify == InitOutstanding /\ [][NextVerify]_vars

\* the three flows with the TTL index at work
NextReap ==
  \/ NextVerify
  \/ Reap

SpecReap == InitOutstanding /\ [][NextReap]_vars

\* ================================================================== claims
\* the records that are valid for (account, code, type) at this moment:
\* unused and not yet expired
Outstanding(uid, code, type) ==
  {k \in 1..Len(TwoFactorAuth) :
     /\ TwoFactorAuth[k].user = uid /\ TwoFactorAuth[k].code = code
     /\ TwoFactorAuth[k].type = type
     /\ ~TwoFactorAuth[k].isUsed /\ now < TwoFactorAuth[k].expiresAt}

\* the records ever issued for (account, code, type)
Issued(uid, code, type) ==
  {k \in 1..Len(TwoFactorAuth) :
     /\ TwoFactorAuth[k].user = uid /\ TwoFactorAuth[k].code = code
     /\ TwoFactorAuth[k].type = type}

\* the account with this email and this password, 0 when there is none
Credentials(email, password) ==
  IF \E i \in DOMAIN User : User[i].email = email /\ User[i].password[2] = password
    THEN CHOOSE i \in DOMAIN User : User[i].email = email /\ User[i].password[2] = password
    ELSE 0

\* this step is a step of the request in slot r
StepOf(r) == req'[r] # req[r]

\* this step answers a request
Answers == last'.pc = "done"

InvalidCode == json(400, "Invalid or expired verification code")
InvalidCredentials == json(401, "Invalid email or password")
StepUp == [NoResp EXCEPT !.status = 200, !.requiresTwoFactor = TRUE,
             !.message = "Two-factor authentication code sent to your email"]

\* the request answered by the last step is a login that passed verification
LoginVerified == last.pc = "done" /\ last.op = "login" /\ last.rec # 0

\* C1: two concurrent verification requests with the same valid code never both
\* succeed: a record is the match of at most one request, so when one request
\* has been answered with a token for a record, no other request in flight
\* holds the same record past its lookup.
C1_ExactlyOneSucceeds ==
  LoginVerified /\ last.resp.token # NoToken
    => \A r \in Slots : req[r].rec # last.rec

\* C2 (as stated): once a record of (account, type) with a code string has been
\* marked used, every later verification lookup with that code string for
\* that account and type fails with the invalid-or-expired-code error.
C2_CodeStringConsumedOnce ==
  [][\A r \in Slots :
       (/\ req[r].pc = "login_lookup" /\ StepOf(r)
        /\ \E k \in Issued(req[r].user.id, req[r].code, "login") : TwoFactorAuth[k].isUsed)
         => Answers /\ last'.resp = InvalidCode]_vars

\* C2 (amended): a record is consumed at most once.  A used record stays used
\* and is never the match of a later lookup; a lookup with the code string of
\* a used record fails unless another record of the account and type with
\* the same code string is unused and unexpired.
C2_RecordConsumedOnce ==
  [][/\ \A k \in 1..Len(TwoFactorAuth) : TwoFactorAuth[k].isUsed => TwoFactorAuth'[k].isUsed
     /\ \A r \in Slots :
          (req[r].pc = "login_lookup" /\ StepOf(r)) =>
            /\ req'[r].rec # 0 => ~TwoFactorAuth[req'[r].rec].isUsed
            /\ (/\ \E k \in Issued(req[r].user.id, req[r].code, "login") : TwoFactorAuth[k].isUsed
                /\ Outstanding(req[r].user.id, req[r].code, "login") = {})
                 => Answers /\ last'.resp = InvalidCode]_vars

\* a resubmitted code is refused: the last answer is the invalid-code error
\* for a code string whose record is used
C2_Witness ==
  /\ last.pc = "done" /\ last.op = "login" /\ last.resp = InvalidCode
  /\ \E k \in Issued(last.user.id, last.code, "login") : TwoFactorAuth[k].isUsed

\* C3: a verification whose lookup runs at or after the expiresAt of the
\* records carrying the presented code fails with the invalid-or-expired-code
\* error, also when such a record is unused, and changes neither the
\* records nor the accounts; an expired record is never the match.
C3_ExpiredCodeFails ==
  [][\A r \in Slots :
       (req[r].pc = "login_lookup" /\ StepOf(r)) =>
         /\ req'[r].rec # 0 => now < TwoFactorAuth[req'[r].rec].expiresAt
         /\ (/\ Issued(req[r].user.id, req[r].code, "login") # {}
             /\ \A k \in Issued(req[r].user.id, req[r].code, "login") :
                  now >= TwoFactorAuth[k].expiresAt)
              => /\ Answers /\ last'.resp = InvalidCode
                 /\ UNCHANGED <<User, TwoFactorAuth, tokens>>]_vars

\* an unused code was presented at or after its expiry and refused
C3_Witness ==
  /\ last.pc = "done" /\ last.op = "login" /\ last.resp = InvalidCode
  /\ \E k \in Issued(last.user.id, last.code, "login") :
       ~TwoFactorAuth[k].isUsed /\ now >= TwoFactorAuth[k].expiresAt
  /\ \A k \in Issued(last.user.id, last.code, "login") : now >= TwoFactorAuth[k].expiresAt

ServerError == json(500, "Server error")

\* the request in slot r is a login that passed the password check for an
\* account with two-factor authentication enabled
TwoFactorLogin(r) ==
  /\ req[r].op = "login" /\ req[r].user # NoUser /\ req[r].user.twoFactorEnabled

\* what a login without a code does for an account with 2FA enabled, up to its
\* answer: one record is created (type login, unused, owned by the account),
\* nothing else is written, no token is issued
C4_Effects ==
  \A r \in Slots :
    (StepOf(r) /\ TwoFactorLogin(r) /\ falsy(req[r].code)) =>
      /\ UNCHANGED <<User, tokens>>
      /\ \/ /\ req[r].pc = "login_create" /\ req'[r].pc = "login_send"
            /\ Len(TwoFactorAuth') = Len(TwoFactorAuth) + 1
            /\ SubSeq(TwoFactorAuth', 1, Len(TwoFactorAuth)) = TwoFactorAuth
            /\ LET n == TwoFactorAuth'[Len(TwoFactorAuth')]
               IN  n.user = req[r].user.id /\ n.type = "login" /\ ~n.isUsed
         \/ /\ req[r].pc = "login_send" /\ Answers
            /\ UNCHANGED TwoFactorAuth
            /\ last'.resp.token = NoToken

\* C4 (as stated): a login with the correct password and no code for an
\* account with 2FA enabled creates exactly one unused login record, issues
\* no token, leaves lastLogin unchanged and is answered that step-up is
\* required.
C4_StepUpAlways ==
  [][/\ C4_Effects
     /\ \A r \in Slots :
          (StepOf(r) /\ TwoFactorLogin(r) /\ falsy(req[r].code) /\ Answers)
            => last'.resp = StepUp]_vars

\* C4 (amended): such a login creates exactly one unused login record, issues
\* no token and leaves lastLogin unchanged; it is answered that step-up is
\* required (the answer carries no code) when the notifier has sent the code,
\* and with the server error when the notifier failed.
C4_StepUpWhenSent ==
  [][/\ C4_Effects
     /\ \A r \in Slots :
          (StepOf(r) /\ TwoFactorLogin(r) /\ falsy(req[r].code) /\ Answers)
            => /\ last'.mail = "sent" => last'.resp = StepUp
               /\ last'.mail = "failed" => last'.resp = ServerError
               /\ last'.mail \in {"sent", "failed"}]_vars

\* the step-up answer has been given and the record of the request exists
C4_Witness ==
  /\ last.pc = "done" /\ last.op = "login" /\ last.resp = StepUp
  /\ \E k \in 1..Len(TwoFactorAuth) :
       /\ TwoFactorAuth[k].user = last.user.id /\ TwoFactorAuth[k].type = "login"
       /\ ~TwoFactorAuth[k].isUsed
  /\ User[last.user.id].lastLogin = -1 /\ tokens = {}

\* C5: a login with the correct password and a code that matches no unused,
\* unexpired login record of the account is answered with the
\* invalid-or-expired-code error and writes nothing (no token, no record
\* marked, lastLogin unchanged); a login whose code matches an outstanding
\* record goes on with that record and is answered with identity and token.
C5_WrongCodeRefused ==
  [][\A r \in Slots :
       (StepOf(r) /\ TwoFactorLogin(r) /\ ~falsy(req[r].code)) =>
         /\ req[r].pc = "login_lookup" =>
              IF Outstanding(req[r].user.id, req[r].code, "login") = {}
                THEN /\ Answers /\ last'.resp = InvalidCode
                     /\ UNCHANGED <<User, TwoFactorAuth, tokens>>
                ELSE /\ req'[r].pc = "login_mark"
                     /\ req'[r].rec \in Outstanding(req[r].user.id, req[r].code, "login")
                     /\ UNCHANGED <<User, TwoFactorAuth, tokens>>
         /\ req[r].pc = "login_mark" => req'[r].pc = "login_save"
         /\ req[r].pc = "login_save" =>
              /\ Answers /\ last'.resp.status = 200
              /\ last'.resp.token = generateToken(req[r].user.id)]_vars

\* a wrong code has been refused while a code of the account is outstanding
C5_Witness ==
  /\ last.pc = "done" /\ last.op = "login" /\ last.resp = InvalidCode
  /\ Issued(last.user.id, last.code, "login") = {}
  /\ \E k \in 1..Len(TwoFactorAuth) :
       k \in Outstanding(last.user.id, TwoFactorAuth[k].code, "login")

\* C6: login issues a token for an account with 2FA enabled only in a
\* request with the correct password whose code matched an unused, unexpired
\* login record of the account; that request has marked the record used and
\* sets lastLogin; lastLogin changes in no step other than the one that
\* answers a login with identity and token.
C6_TokenOnlyAfterVerification ==
  [][/\ (Answers /\ last'.op = "login" /\ last'.resp.token # NoToken
           /\ last'.user.twoFactorEnabled) =>
          /\ last'.user.password[2] = last'.password
          /\ last'.rec \in 1..Len(TwoFactorAuth)
          /\ TwoFactorAuth'[last'.rec].user = last'.user.id
          /\ TwoFactorAuth'[last'.rec].code = last'.code
          /\ TwoFactorAuth'[last'.rec].type = "login"
          /\ TwoFactorAuth'[last'.rec].isUsed
          /\ User'[last'.user.id].lastLogin = now
     /\ \A r \in Slots :
          (StepOf(r) /\ req'[r].rec # 0 /\ req'[r].rec # req[r].rec) =>
            req'[r].rec \in Outstanding(req[r].user.id, req[r].code, "login")
     /\ \A u \in DOMAIN User :
          User'[u].lastLogin # User[u].lastLogin =>
            /\ Answers /\ last'.op = "login" /\ last'.resp.status = 200
            /\ last'.resp.token = generateToken(u)]_vars

\* a login for an account with 2FA enabled has been answered with a token
C6_Witness ==
  /\ LoginVerified /\ last.user.twoFactorEnabled /\ last.resp.token # NoToken
  /\ TwoFactorAuth[last.rec].isUsed /\ User[last.user.id].lastLogin = now

\* C7: for every registered account, login passes the credential check (it is
\* not answered with the invalid-credentials error and goes on with that
\* account) if and only if the supplied password is the one whose hash is
\* stored for the email; a token is issued only for such a password.
C7_AuthenticateIffPasswordMatches ==
  [][/\ \A r \in Slots :
          (StepOf(r) /\ req[r].pc = "login_find") =>
            LET i == Credentials(req[r].email, req[r].password)
            IN  /\ (Answers /\ last'.resp = InvalidCredentials) <=> i = 0
                /\ i # 0 => ~Answers /\ req'[r].user.id = i
     /\ (Answers /\ last'.op = "login" /\ last'.resp.token # NoToken) =>
          Credentials(last'.email, last'.password) = last'.resp.token.id]_vars

\* a login with the stored password has gone through to identity and token
C7_Witness ==
  /\ last.pc = "done" /\ last.op = "login" /\ last.resp.status = 200
  /\ last.resp.token = generateToken(Credentials(last.email, last.password))
  /\ last.resp.token # NoToken

\* no account has the email
NoAccount(email) == \A i \in DOMAIN User : User[i].email # email

\* an account has the email, with another password
WrongPassword(email, password) ==
  \E i \in DOMAIN User : User[i].email = email /\ User[i].password[2] # password

\* C8: a login for an email without account and a login with a wrong password
\* for an existing account get the same answer, status 401 with the same
\* message, whatever the account's 2FA setting and the code supplied, and
\* neither writes anything.
C8_SameResponse ==
  [][\A r \in Slots :
       (/\ StepOf(r) /\ req[r].pc = "login_find"
        /\ NoAccount(req[r].email) \/ WrongPassword(req[r].email, req[r].password))
         => /\ Answers /\ last'.resp = InvalidCredentials
            /\ UNCHANGED <<User, nextId, TwoFactorAuth, tokens>>]_vars

\* a wrong password with a code, for an account with 2FA enabled, has been
\* answered like an unknown email
C8_Witness ==
  /\ last.pc = "done" /\ last.op = "login" /\ last.resp = InvalidCredentials
  /\ WrongPassword(last.email, last.password) /\ ~falsy(last.code)
  /\ \E i \in DOMAIN User : User[i].email = last.email /\ User[i].twoFactorEnabled

\* C9: a login without email or without password is answered with the
\* validation error in the step that reads the body: no account is looked up
\* (the request never is in flight), no record is created, no account changes.
C9_ValidationFirst ==
  [][/\ (Answers /\ last'.op = "login"
           /\ (falsy(last'.email) \/ falsy(last'.password))) =>
          /\ last'.resp = json(400, "Please provide email and password")
          /\ last'.user = NoUser
          /\ UNCHANGED <<User, nextId, TwoFactorAuth, tokens>>
     /\ \A r \in Slots :
          req'[r].op = "login" => ~falsy(req'[r].email) /\ ~falsy(req'[r].password)]_vars

\* a login with an email and an empty password has been refused
C9_Witness ==
  /\ last.pc = "done" /\ last.op = "login" /\ ~falsy(last.email) /\ falsy(last.password)
  /\ last.resp.status = 400

\* C10: register answers the validation error when a field is missing and the
\* duplicate-account error when an account with the email exists, leaving the
\* accounts unchanged; otherwise it creates exactly one account (role user,
\* no custom permissions, 2FA off) and answers 201 with that identity and a
\* token for it.
C10_RegisterOutcome ==
  [][(Answers /\ last'.op = "register") =>
       IF falsy(last'.name) \/ falsy(last'.email) \/ falsy(last'.password)
         THEN /\ last'.resp = json(400, "Please provide all required fields")
              /\ UNCHANGED User
         ELSE IF ~NoAccount(last'.email)
                THEN /\ last'.resp = json(400, "User already exists")
                     /\ UNCHANGED User
                ELSE \E i \in DOMAIN User' \ DOMAIN User :
                       /\ DOMAIN User' = DOMAIN User \cup {i}
                       /\ \A k \in DOMAIN User : User'[k] = User[k]
                       /\ User'[i].email = last'.email /\ User'[i].name = last'.name
                       /\ User'[i].role = "user" /\ User'[i].permissions = {}
                       /\ User'[i].twoFactorEnabled = FALSE
                       /\ last'.resp.status = 201 /\ last'.resp.id = i
                       /\ last'.resp.role = "user" /\ last'.resp.permissions = {}
                       /\ last'.resp.token = generateToken(i)]_vars

UserSet == {"inventory:read", "inventory:write", "waste:read", "waste:write"}
ManagerOnly == {"inventory:delete", "waste:delete", "analytics:read", "users:read"}
AdminOnly == {"users:write", "users:delete", "settings:write"}

RoleTable(role) ==
  CASE role = "user" -> UserSet
    [] role = "manager" -> UserSet \cup ManagerOnly
    [] role = "admin" -> UserSet \cup ManagerOnly \cup AdminOnly

\* effectivePermissions(account) of the specification
effectivePermissions(account) == RoleTable(account.role) \cup account.permissions

\* C12: the permission check lets the request through to the handler if and
\* only if the required permission is in the role table entry of the
\* account's stored role at the time of the check or in its custom
\* permissions; otherwise it answers 403 with the required permission and the
\* stored role, and the handler is not run.  The handler runs only for a
\* request that has passed the check.
C12_PermissionCheck ==
  [][\A r \in Slots :
       /\ (StepOf(r) /\ req[r].pc = "require_permission") =>
            LET account == User[req[r].user.id]
            IN  IF req[r].required \in effectivePermissions(account)
                  THEN ~Answers /\ req'[r].pc = "handler"
                  ELSE /\ Answers /\ req'[r] = Idle
                       /\ last'.resp.status = 403
                       /\ last'.resp.required = req[r].required
                       /\ last'.resp.userRole = account.role
                       /\ UNCHANGED User
       /\ (StepOf(r) /\ req'[r].pc = "handler") => req[r].pc = "require_permission"]_vars

\* a user-role account without custom grants has asked for an action that
\* requires users:write and has been refused
C12_Witness ==
  /\ last.pc = "done" /\ last.op = "gate" /\ last.required = "users:write"
  /\ last.resp = [json(403, "Insufficient permissions") EXCEPT
                    !.required = "users:write", !.userRole = "user"]
  /\ User[last.user.id].role = "user" /\ User[last.user.id].permissions = {}

\* C13: the role table is a strict hierarchy: the manager entry is the user
\* entry plus exactly inventory:delete, waste:delete, analytics:read and
\* users:read; the admin entry is the manager entry plus exactly users:write,
\* users:delete and settings:write; and every custom permission an account
\* holds passes the account's permission check, whatever its role.
C13_RoleHierarchy ==
  /\ rolePermissions["user"] \cap ManagerOnly = {}
  /\ rolePermissions["manager"] = rolePermissions["user"] \cup ManagerOnly
  /\ rolePermissions["manager"] \cap AdminOnly = {}
  /\ rolePermissions["admin"] = rolePermissions["manager"] \cup AdminOnly
  /\ \A i \in DOMAIN User : \A p \in User[i].permissions :
       hasRolePermission(User[i], p) \/ hasCustomPermission(User[i], p)

\* a user-role account holds a custom permission outside the user entry, and
\* the custom permission has let a request of its holder through
C13_Witness ==
  /\ \E i \in DOMAIN User :
       /\ User[i].role = "user" /\ "users:write" \in User[i].permissions
       /\ \E r \in Slots : /\ req[r].pc = "handler" /\ req[r].user.id = i
                           /\ req[r].required = "users:write"

\* the positions of a request inside a handler of /api/users
InUsersHandler == {"create_find", "create_create", "create_read", "role_update", "delete"}

\* C14: the role check lets a request through to the handler if and only if
\* the account's stored role at the time of the check is one of the allowed
\* roles; otherwise it answers 403 and the handler is not run: the accounts
\* are unchanged and the request is over.  A request enters a handler only
\* through a role check it has passed.
C14_RoleCheck ==
  [][\A r \in Slots :
       /\ (StepOf(r) /\ req[r].pc = "require_role") =>
            LET account == User[req[r].user.id]
            IN  IF account.role \in {"admin"}
                  THEN \/ ~Answers /\ req'[r].pc \in InUsersHandler
                       \/ Answers /\ last'.resp.status = 400
                  ELSE /\ Answers /\ req'[r] = Idle
                       /\ last'.resp.status = 403
                       /\ last'.resp.allowed = {"admin"}
                       /\ last'.resp.userRole = account.role
                       /\ UNCHANGED User
       /\ (StepOf(r) /\ req'[r].pc \in InUsersHandler /\ req[r].pc \notin InUsersHandler)
            => req[r].pc = "require_role" /\ User[req[r].user.id].role = "admin"]_vars

\* a request of an account that was an admin when protect fetched it and is
\* not any more has been refused by the role check
C14_Witness ==
  /\ last.pc = "done" /\ last.op = "users-role" /\ last.resp.status = 403
  /\ last.user.role = "admin" /\ last.resp.userRole = "manager"
  /\ User[last.user.id].role = "manager"

\* the request asks to set the caller's own role to a role other than admin
SelfDemotion(q) ==
  q.op = "users-role" /\ q.id = q.auth.id /\ ~falsy(q.role) /\ q.role # "admin"

InclusiveRange == {n \in CodeSample : RandMin <= n /\ n <= RandMax}

\* C17: the codes the generator can produce are exactly the integers of the
\* inclusive range [100000, 999999]: every stored code is the decimal string
\* of a value of the range, and whenever a login is about to create its code
\* record, every value of the range, 999999 included, is a code the record
\* can get.
C17_GeneratorRange ==
  /\ \A k \in 1..Len(TwoFactorAuth) :
       TwoFactorAuth[k].code \in {ToString(n) : n \in InclusiveRange}
  /\ \A r \in Slots :
       (req[r].pc = "login_create" /\ Len(TwoFactorAuth) < MaxCodes) =>
         \A n \in InclusiveRange :
           ENABLED (LoginCreate(r) /\ TwoFactorAuth'[Len(TwoFactorAuth')].code = ToString(n))

\* the type of the records a route creates
TypeOf(op) ==
  CASE op = "login" -> "login"
    [] op = "enable-2fa" -> "enable_2fa"
    [] op = "disable-2fa" -> "disable_2fa"

\* C18: every code record is created by a request of the login, enable-2FA or
\* disable-2FA flow that carries no code, one record per step, appended to the
\* collection, and at creation it has isUsed = false, expiresAt equal to the
\* creation time plus exactly 10 minutes, the type of the flow and the
\* requesting account as owner; the other records are not touched.
C18_FreshRecord ==
  [][Len(TwoFactorAuth') # Len(TwoFactorAuth) =>
       /\ Len(TwoFactorAuth') = Len(TwoFactorAuth) + 1
       /\ SubSeq(TwoFactorAuth', 1, Len(TwoFactorAuth)) = TwoFactorAuth
       /\ \E r \in Slots :
            LET n == TwoFactorAuth'[Len(TwoFactorAuth')]
            IN  /\ StepOf(r) /\ falsy(req[r].code)
                /\ req[r].op \in {"login", "enable-2fa", "disable-2fa"}
                /\ n.isUsed = FALSE
                /\ n.createdAt = now
                /\ n.expiresAt = now + 10 * 60 * 1000
                /\ n.type = TypeOf(req[r].op)
                /\ n.user = req[r].user.id
                /\ n.user = IF req[r].op = "login"
                              THEN Credentials(req[r].email, req[r].password)
                              ELSE req[r].auth.id]_vars

\* the three flows have each created a record, at different times
C18_Witness ==
  /\ Len(TwoFactorAuth) = MaxCodes
  /\ \E i, j \in 1..Len(TwoFactorAuth) :
       /\ TwoFactorAuth[i].type = "login" /\ TwoFactorAuth[j].type = "disable_2fa"
       /\ TwoFactorAuth[i].createdAt # TwoFactorAuth[j].createdAt
       /\ TwoFactorAuth[j].expiresAt = TwoFactorAuth[j].createdAt + 600000

\* C19: when the notifier fails to send a code in the login, enable-2FA or
\* disable-2FA flow, the request is answered in that step (the send is not
\* retried) with an error that says that sending the verification failed, no
\* token is issued and no account is changed.
C19_SendFailureReported ==
  [][(Answers /\ last'.mail = "failed") =>
       /\ last'.resp.status >= 400
       /\ last'.resp.message = "Failed to send verification email"
       /\ last'.resp.token = NoToken
       /\ UNCHANGED <<User, tokens, TwoFactorAuth>>]_vars

\* C20: twoFactorEnabled of an account changes only in the update step of an
\* enable-2FA request (to true) or of a disable-2FA request (to false) of
\* that account, for a record of that account, of the type of the flow, with
\* the code the request presented; and a request holds a record only if the
\* record was unused and unexpired when the request looked it up.  Login,
\* code requests and role updates leave the flag alone.
C20_FlagOnlyByVerification ==
  [][/\ \A i \in DOMAIN User \cap DOMAIN User' :
          User'[i].twoFactorEnabled # User[i].twoFactorEnabled =>
            \E r \in Slots :
              /\ StepOf(r) /\ req[r].pc = "tfa_update"
              /\ req[r].op = (IF User'[i].twoFactorEnabled THEN "enable-2fa" ELSE "disable-2fa")
              /\ req[r].auth.id = i
              /\ req[r].rec \in 1..Len(TwoFactorAuth)
              /\ TwoFactorAuth[req[r].rec].user = i
              /\ TwoFactorAuth[req[r].rec].type = TypeOf(req[r].op)
              /\ TwoFactorAuth[req[r].rec].code = req[r].code
     /\ \A r \in Slots :
          (StepOf(r) /\ req'[r].rec # 0 /\ req'[r].rec # req[r].rec) =>
            /\ req[r].pc \in {"tfa_lookup", "login_lookup"}
            /\ req'[r].rec \in Outstanding(req[r].user.id, req[r].code, TypeOf(req[r].op))]_vars

\* two-factor authentication has been enabled with an enable_2fa code and
\* then disabled with a disable_2fa code
C20_Witness ==
  /\ last.pc = "done" /\ last.op = "disable-2fa"
  /\ last.resp = json(200, "Two-factor authentication disabled successfully")
  /\ ~User[last.auth.id].twoFactorEnabled
  /\ \E i, j \in 1..Len(TwoFactorAuth) :
       /\ TwoFactorAuth[i].type = "enable_2fa" /\ TwoFactorAuth[i].isUsed
       /\ TwoFactorAuth[j].type = "disable_2fa" /\ TwoFactorAuth[j].isUsed

\* the routes behind protect
Protected == {"gate", "users-create", "users-role", "users-delete", "enable-2fa", "disable-2fa"}

\* the positions behind protect: the gates and the handlers
BehindProtect ==
  {"require_role", "require_permission", "handler", "tfa_create", "tfa_lookup",
   "tfa_send", "tfa_update", "tfa_mark"} \cup InUsersHandler

\* C21: a request is behind the authentication gate only if the gate has
\* accepted it: it enters there from the gate's lookup, with a token that
\* verifies and that names an account stored at that moment.  A request
\* without token or with a token that does not verify is answered 401 when it
\* arrives, and one whose account is not stored when the gate looks it up is
\* answered 401 by the gate.  In every step of the gate the request is either
\* passed on or answered, never both: an answered request is over.
C21_GateFirst ==
  [][/\ \A r \in Slots :
          /\ (req'[r].pc \in BehindProtect /\ req[r].pc \notin BehindProtect) =>
               /\ req[r].pc = "protect_find" /\ ~Answers
               /\ verify(req[r].auth) /\ req[r].auth.id \in DOMAIN User
               /\ req'[r].user.id = req[r].auth.id
          /\ (StepOf(r) /\ req[r].pc = "protect_find" /\ req[r].auth.id \notin DOMAIN User) =>
               /\ Answers /\ last'.resp.status = 401 /\ req'[r] = Idle
          /\ req'[r].pc = "protect_find" => verify(req'[r].auth) /\ req'[r].auth # NoToken
          /\ (Answers /\ StepOf(r)) => req'[r] = Idle
     /\ (Answers /\ last'.op \in Protected /\ last'.user = NoUser) =>
          /\ last'.resp.status = 401
          /\ UNCHANGED <<User, TwoFactorAuth, tokens>>
     /\ (Answers /\ last'.op \in Protected /\ (last'.auth = NoToken \/ ~verify(last'.auth))) =>
          last'.user = NoUser /\ req' = req]_vars

\* a request with the token of an account that has been deleted since the
\* token was issued has been answered 401 by the gate
C21_Witness ==
  /\ last.pc = "done" /\ last.op \in Protected
  /\ last.resp = json(401, "Not authorized, user not found")
  /\ verify(last.auth) /\ last.auth.id \notin DOMAIN User

\* the request in slot r is a login that passed the password check for an
\* account with two-factor authentication not enabled
PlainLogin(r) ==
  /\ req[r].op = "login" /\ req[r].user # NoUser /\ ~req[r].user.twoFactorEnabled

\* C22: a login with the correct password for an account whose
\* twoFactorEnabled is false goes from the password check straight to the
\* answer, with or without a code in the body: it is answered 200 with the
\* identity and a token and without requiresTwoFactor, and from the password
\* check to the answer the code records are left as they are (none created,
\* none marked used).
C22_NoCodeRequired ==
  [][\A r \in Slots :
       /\ (/\ StepOf(r) /\ req[r].pc = "login_find"
           /\ Credentials(req[r].email, req[r].password) # 0
           /\ ~User[Credentials(req[r].email, req[r].password)].twoFactorEnabled) =>
            /\ req'[r].pc = "login_save" /\ PlainLogin(r)'
            /\ ~Answers
            /\ UNCHANGED TwoFactorAuth
       /\ (StepOf(r) /\ PlainLogin(r)) =>
            /\ req[r].pc = "login_save"
            /\ Answers /\ last'.op = "login" /\ last'.rec = 0
            /\ last'.resp.status = 200
            /\ last'.resp.id = req[r].user.id
            /\ last'.resp.token = generateToken(req[r].user.id)
            /\ ~last'.resp.requiresTwoFactor
            /\ UNCHANGED TwoFactorAuth]_vars

\* a login of an account without two-factor authentication that carried the
\* code of an outstanding record of the account has been answered with a token,
\* and the record is still unused
C22_Witness ==
  /\ last.pc = "done" /\ last.op = "login" /\ last.resp.token # NoToken
  /\ ~last.user.twoFactorEnabled /\ last.rec = 0
  /\ \E i \in 1..Len(TwoFactorAuth) :
       /\ TwoFactorAuth[i].user = last.user.id /\ TwoFactorAuth[i].code = last.code
       /\ TwoFactorAuth[i].type = "login"
       /\ ~TwoFactorAuth[i].isUsed /\ TwoFactorAuth[i].expiresAt > now

\* the request in slot r is at the lookup of its code
AtLookup(r) == req[r].pc \in {"login_lookup", "tfa_lookup"}

\* the outstanding records of the request's account and flow that carry the
\* code the request presents
Presented(r) == Outstanding(req[r].user.id, req[r].code, TypeOf(req[r].op))

\* C23: the code records of an account are independent.  No step removes a
\* record, and a step changes a stored record only by setting isUsed on the
\* one record a verification matched, which carries the code string that
\* request presented: creating a new record and consuming a record leave every
\* other record (any record with a different code string) as it was.  A
\* record that is still outstanding satisfies a verification that presents
\* its code for its account and flow: the lookup does not reject it.
C23_IndependentCodes ==
  [][/\ Len(TwoFactorAuth') >= Len(TwoFactorAuth)
     /\ \A i \in 1..Len(TwoFactorAuth) :
          TwoFactorAuth'[i] # TwoFactorAuth[i] =>
            /\ TwoFactorAuth'[i] = [TwoFactorAuth[i] EXCEPT !.isUsed = TRUE]
            /\ \E r \in Slots :
                 /\ StepOf(r) /\ req[r].pc \in {"login_mark", "tfa_mark"}
                 /\ req[r].rec = i /\ req[r].code = TwoFactorAuth[i].code
     /\ \A r \in Slots :
          (StepOf(r) /\ AtLookup(r) /\ Presented(r) # {}) =>
            /\ ~Answers
            /\ req'[r].rec \in Presented(r)]_vars

\* two login codes of one account with different code strings have each
\* satisfied a verification: both records are used, the second by the login
\* just answered with a token
C23_Witness ==
  /\ LoginVerified /\ last.resp.token # NoToken
  /\ \E i, j \in 1..Len(TwoFactorAuth) :
       /\ i # j /\ last.rec = j
       /\ TwoFactorAuth[i].user = TwoFactorAuth[j].user
       /\ TwoFactorAuth[i].type = TwoFactorAuth[j].type
       /\ TwoFactorAuth[i].code # TwoFactorAuth[j].code
       /\ TwoFactorAuth[i].isUsed /\ TwoFactorAuth[j].isUsed

\* C24: reaping expired records changes no outcome.  Without reaping, every
\* request whose lookup matched a record is answered 200 (the login with the
\* identity and token, enable and disable with the acknowledgment); with the
\* TTL index at work the same must hold.
C24_ReapingUnobservable ==
  [][\A r \in Slots :
       (StepOf(r) /\ req[r].rec # 0 /\ Answers) => last'.resp.status = 200]_vars

\* C25: a code record satisfies a verification only for the account and the
\* flow it was issued for.  The record a request matches is owned by the
\* account of the request and has the type of the request's flow; a request
\* that presents a code for which its own account and flow have no outstanding
\* record is answered 400 at the lookup and changes nothing, whatever records
\* of other accounts or other flows carry that code string.
C25_BoundToAccountAndType ==
  [][\A r \in Slots :
       /\ (StepOf(r) /\ AtLookup(r) /\ Presented(r) = {}) =>
            /\ Answers /\ last'.resp = InvalidCode
            /\ UNCHANGED <<User, TwoFactorAuth, tokens>>
       /\ (StepOf(r) /\ req'[r].rec # 0 /\ req[r].rec = 0) =>
            /\ AtLookup(r)
            /\ TwoFactorAuth[req'[r].rec].user = req[r].user.id
            /\ TwoFactorAuth[req'[r].rec].type = TypeOf(req[r].op)
            /\ TwoFactorAuth[req'[r].rec].code = req[r].code
       /\ (StepOf(r) /\ req[r].rec # 0) => req'[r] = Idle \/ req'[r].rec = req[r].rec]_vars

\* a request has presented the code string of an outstanding record issued to
\* another account and has been answered 400, the record still outstanding
C25_Witness ==
  /\ last.pc = "done" /\ last.resp = InvalidCode /\ last.user # NoUser
  /\ \E i \in 1..Len(TwoFactorAuth) :
       /\ TwoFactorAuth[i].code = last.code
       /\ TwoFactorAuth[i].user # last.user.id
       /\ TwoFactorAuth[i].type = TypeOf(last.op)
       /\ ~TwoFactorAuth[i].isUsed /\ TwoFactorAuth[i].expiresAt > now

\* a request has presented the code string of an outstanding record issued to
\* its account for another flow and has been answered 400
C25_WitnessType ==
  /\ last.pc = "done" /\ last.resp = InvalidCode /\ last.user # NoUser
  /\ \E i \in 1..Len(TwoFactorAuth) :
       /\ TwoFactorAuth[i].code = last.code
       /\ TwoFactorAuth[i].user = last.user.id
       /\ TwoFactorAuth[i].type # TypeOf(last.op)
       /\ ~TwoFactorAuth[i].isUsed /\ TwoFactorAuth[i].expiresAt > now

\* C26: when several outstanding records of the account and flow carry the
\* presented code string, the lookup selects the most recently created of
\* them: no other matching record has a later createdAt.
C26_MostRecentSelected ==
  [][\A r \in Slots :
       (StepOf(r) /\ AtLookup(r) /\ req'[r].rec # 0) =>
         \A k \in Presented(r) :
           TwoFactorAuth[k].createdAt <= TwoFactorAuth[req'[r].rec].createdAt]_vars

\* C27: some account has role admin in every reachable state, whatever role
\* updates and deletes run and however their role checks and their writes
\* interleave.
C27_AdminExists == \E i \in DOMAIN User : User[i].role = "admin"

\* the role and the custom permissions of the stored accounts
Privileges == [i \in DOMAIN User |-> <<User[i].role, User[i].permissions>>]

\* C28: no privilege escalation through custom permissions.  The role check
\* lets a request into a handler of the users endpoints only if the
\* requester's stored role is admin at that moment, and answers 403 otherwise,
\* whatever custom permissions the requester holds.  The role or the custom
\* permissions of an account change only in the update step of such a request,
\* an account is removed only in its delete step, and an account comes about
\* only in its create step or by register, which gives it the role user and no
\* custom permissions.
C28_NoEscalation ==
  [][/\ \A r \in Slots :
          /\ (req'[r].pc \in InUsersHandler /\ req[r].pc \notin InUsersHandler) =>
               /\ req[r].pc = "require_role"
               /\ req[r].user.id \in DOMAIN User
               /\ User[req[r].user.id].role = "admin"
          /\ (/\ StepOf(r) /\ req[r].pc = "require_role"
              /\ req[r].user.id \in DOMAIN User
              /\ User[req[r].user.id].role # "admin") =>
               /\ Answers /\ last'.resp.status = 403 /\ req'[r] = Idle
               /\ UNCHANGED User
     /\ \A i \in DOMAIN User \cap DOMAIN User' :
          Privileges'[i] # Privileges[i] =>
            \E r \in Slots : StepOf(r) /\ req[r].pc = "role_update" /\ req[r].id = i
     /\ \A i \in DOMAIN User \ DOMAIN User' :
          \E r \in Slots : StepOf(r) /\ req[r].pc = "delete" /\ req[r].id = i
     /\ \A i \in DOMAIN User' \ DOMAIN User :
          \E r \in Slots :
            /\ StepOf(r)
            /\ \/ req[r].pc = "create_create"
               \/ /\ req[r].pc = "reg_create"
                  /\ Privileges'[i] = <<"user", {}>>]_vars

\* an account that is no admin and holds the custom permissions users:write
\* and users:delete has been answered 403 by the role update endpoint
C28_Witness ==
  /\ last.pc = "done" /\ last.op = "users-role" /\ last.resp.status = 403
  /\ last.user.id \in DOMAIN User
  /\ User[last.user.id].role # "admin"
  /\ UserAdministration \subseteq User[last.user.id].permissions

\* the check of the request in slot r, made against the account as it is
\* stored now
Granted(r) ==
  LET account == User[req[r].user.id]
  IN  IF req[r].pc = "require_permission"
        THEN req[r].required \in effectivePermissions(account)
        ELSE account.role = "admin"

\* C29: role and permission changes take effect on the next request, with the
\* token the account already holds.  The authentication gate hands on the
\* account as it is stored at that moment, and a permission or role check
\* rejects the request with 403 exactly when the role and the custom
\* permissions stored at the moment of the check do not grant it, whatever they
\* were when the token was issued or when an earlier request was checked.
C29_NextRequest ==
  [][\A r \in Slots :
       /\ (StepOf(r) /\ req[r].pc = "protect_find" /\ req[r].auth.id \in DOMAIN User) =>
            req'[r].user = document(User[req[r].auth.id])
       /\ (/\ StepOf(r) /\ req[r].pc \in {"require_permission", "require_role"}
           /\ req[r].user.id \in DOMAIN User) =>
            /\ Granted(r) <=> ~(Answers /\ last'.resp.status = 403)
            /\ ~Granted(r) => last'.resp.userRole = User[req[r].user.id].role
            /\ Granted(r) => (Answers \/ req'[r].pc \in {"handler"} \cup InUsersHandler)]_vars

\* the second account, registered with role user, has been made a manager and
\* its next request with the token from its registration has passed the check
\* for users:read, which the role user does not grant
C29_Witness ==
  /\ last.pc = "done" /\ last.op = "gate" /\ last.required = "users:read"
  /\ last.auth = generateToken(2) /\ last.resp.status = 200
  /\ last.user.role = "manager" /\ last.user.permissions = {}
  /\ "users:read" \notin RoleTable("user")

\* the step finishes an enable-2fa or disable-2fa request of slot r that has
\* changed the flag of its account: protect fetched the account with the other
\* value, and the account has the value of the route when the request is over
FlagChangedBy(r) ==
  /\ StepOf(r) /\ Answers
  /\ req[r].op \in {"enable-2fa", "disable-2fa"}
  /\ req[r].user # NoUser
  /\ req[r].user.twoFactorEnabled # flowFlag(req[r].op)
  /\ User'[req[r].user.id].twoFactorEnabled = flowFlag(req[r].op)

\* C30: the flag is never changed without the code being consumed: when an
\* enable-2fa or disable-2fa request that changed twoFactorEnabled is over,
\* with success or with an error, the record it matched has isUsed = true.
C30_FlagOnlyWithCodeConsumed ==
  [][\A r \in Slots :
       FlagChangedBy(r) => req[r].rec # 0 /\ TwoFactorAuth'[req[r].rec].isUsed]_vars
====
